---- MODULE Spec2Model ----
(***************************************************************************)
(* Model of pulse_generator.py: the pulse sequence compiler                *)
(* (convertSequenceToBinary, createBitsFromChannels, setBits, pack) and    *)
(* the device controller (halt, loadPages, run, reset, setSequence,        *)
(* setContinuous) of class PulseGenerator.                                 *)
(*                                                                         *)
(* The source is Python 2 (byte strings are str, `/` on ints is floor      *)
(* division, round() rounds half away from zero, struct.pack raises        *)
(* struct.error for an out-of-range integer).  Python ints are unbounded;  *)
(* the model's integers are 32 bit, so every quantity that can reach 2^31  *)
(* (times, ticks, repetitions, the header of a word) is a two-limb number  *)
(* [hi, lo] with value hi * 2^30 + lo.                                     *)
(*                                                                         *)
(* Times are counted in half nanoseconds, so that both time quanta         *)
(* (1.5 ns and 2.0 ns) are whole numbers.                                  *)
(***************************************************************************)
EXTENDS Integers, Sequences, FiniteSets, TLC

VARIABLES
    core,       \* self.core: "12x8" or "24x4"
    sequence,   \* argument of convertSequenceToBinary
    loop,       \* argument of convertSequenceToBinary
    pos,        \* position in convertSequenceToBinary: "for", "returned", "raised"
    k,          \* number of steps of sequence the for loop has consumed
    frame,      \* the locals of convertSequenceToBinary
    wire,       \* the wire-in registers 0x00, 0x01, 0x02 of the Device Link
    op,         \* the controller operation called last
    status,     \* "idle", "running", "returned" or "raised"
    todo,       \* the statements the running operation has still to execute
    pages,      \* the buffer handed to loadPages
    error,      \* the exception the operation raised
    calls,      \* the Device Link calls and sleeps of the operation, in order
    made,       \* how the object was constructed and the core that was asked for
    packed      \* the arguments and the result of a call of pack

cvars == <<core, sequence, loop, pos, k, frame>>
dvars == <<wire, op, status, todo, pages, error, calls>>
vars == <<core, sequence, loop, pos, k, frame, wire, op, status, todo, pages, error, calls,
          made, packed>>

-----------------------------------------------------------------------------
(* Unbounded integers as two limbs.                                        *)

Base == 2^30
HalfBase == 2^15

BigNorm(h, l) == [hi |-> h + (l \div Base), lo |-> l % Base]
BigOf(n) == BigNorm(0, n)
BigAdd(a, b) == BigNorm(a.hi + b.hi, a.lo + b.lo)
BigSub(a, b) == BigNorm(a.hi - b.hi, a.lo - b.lo)
BigNeg(a) == BigSub(BigOf(0), a)
BigLt(a, b) == a.hi < b.hi \/ (a.hi = b.hi /\ a.lo < b.lo)
BigLe(a, b) == a = b \/ BigLt(a, b)
BigIsNeg(a) == a.hi < 0
BigIsZero(a) == a.hi = 0 /\ a.lo = 0
\* value of a as a plain integer; only for values known to be small
BigToInt(a) == a.hi * Base + a.lo
\* a * m for a small m >= 0
BigMulSmall(a, m) ==
    LET l1 == a.lo \div HalfBase
        l0 == a.lo % HalfBase
        c  == (l1 * m) \div HalfBase
        e  == (l1 * m) % HalfBase
    IN  BigNorm(a.hi * m + c, e * HalfBase + l0 * m)
\* floor(a / d) and a mod d for a small d > 0
BigDivSmall(a, d) ==
    LET r == a.hi % d
    IN  [hi |-> a.hi \div d,
         lo |-> r * (Base \div d) + ((r * (Base % d) + a.lo) \div d)]
BigModSmall(a, d) == ((a.hi % d) * (Base % d) + a.lo) % d
\* floor(a / b) and a mod b for b a positive multiple of Base
BigDiv(a, b) == BigOf(a.hi \div b.hi)
BigMod(a, b) == [hi |-> a.hi % b.hi, lo |-> a.lo]

-----------------------------------------------------------------------------
(* Bit operations on small non-negative integers.                          *)

RECURSIVE BitOr(_, _)
BitOr(a, b) ==
    IF a = 0 THEN b
    ELSE IF b = 0 THEN a
    ELSE (IF a % 2 = 1 \/ b % 2 = 1 THEN 1 ELSE 0) + 2 * BitOr(a \div 2, b \div 2)

ShiftLeft(a, n) == a * 2^n

-----------------------------------------------------------------------------
(* Core profile and channel registry.                                      *)

Cores == {"12x8", "24x4"}
n_channels(c) == IF c = "12x8" THEN 12 ELSE 24
channel_width(c) == IF c = "12x8" THEN 8 ELSE 4
\* self.dt in half nanoseconds: 1.5 ns and 2.0 ns
dt(c) == IF c = "12x8" THEN 3 ELSE 4

ChannelNames == {"ch0", "ch3", "ch13"}
channel_map ==
    [name \in ChannelNames |->
        CASE name = "ch0" -> 0
          [] name = "ch3" -> 3
          [] name = "ch13" -> 13]

-----------------------------------------------------------------------------
(* Inputs of the compiler: a sequence is a list of (channels, time).       *)

MaxSteps == 2

\* times in half nanoseconds: 0 ns, 0.5 ns, 6 ns, 19.5 ns, -6 ns, and two long
\* durations, 24 * (2^31 + 1) and 24 * 2^32 half nanoseconds (on the 12x8 core
\* 2^31 + 1 and 2^32 whole blocks)
Times ==
    {BigOf(0), BigOf(1), BigOf(12), BigOf(39), BigOf(-12),
     [hi |-> 48, lo |-> 24], [hi |-> 96, lo |-> 0]}

ChannelSets == {{}, {"ch0"}, {"ch3"}, {"ch0", "ch13"}, {"nc"}}

Steps == [channels : ChannelSets, time : Times]

Sequences == UNION {[1..n -> Steps] : n \in 0..MaxSteps}

-----------------------------------------------------------------------------
(* The compiler.                                                           *)

REP_MAX == [hi |-> 2, lo |-> 0]
ONES(c) == 2^channel_width(c) - 1
PAGE == 1024

blank(c) == [i \in 0..(n_channels(c) - 1) |-> 0]
NoBits(c) == [i \in 0..(n_channels(c) - 1) |-> FALSE]

\* int(round(time / dt)): Python 2 round() rounds half away from zero
RoundDiv(t, d) == BigDivSmall(BigAdd(BigMulSmall(t, 2), BigOf(d)), 2 * d)
Quantize(c, time) ==
    IF BigIsNeg(time) THEN BigNeg(RoundDiv(BigNeg(time), dt(c)))
    ELSE RoundDiv(time, dt(c))

\* a channel that is not a key of channel_map raises KeyError, an index outside
\* the array raises IndexError
\* createBitsFromChannels that leaves out the channels it does not know
createBitsFromKnownChannels(c, channels) ==
    [err |-> "none",
     bits |-> [i \in 0..(n_channels(c) - 1) |->
                  \E ch \in channels \cap DOMAIN channel_map : channel_map[ch] = i]]

createBitsFromChannels(c, channels) ==
    IF \E ch \in channels : ch \notin DOMAIN channel_map
    THEN [err |-> "KeyError", bits |-> NoBits(c)]
    ELSE IF \E ch \in channels : channel_map[ch] >= n_channels(c)
    THEN [err |-> "IndexError", bits |-> NoBits(c)]
    ELSE [err |-> "none",
          bits |-> [i \in 0..(n_channels(c) - 1) |->
                       \E ch \in channels : channel_map[ch] = i]]

\* setBits with the shift by start left out
setBitsNoShift(c, integers, start, count, bits) ==
    IF \A i \in DOMAIN bits : ~bits[i]
    THEN [err |-> "none", integers |-> integers]
    ELSE IF count < 0 THEN [err |-> "TypeError", integers |-> integers]
    ELSE IF start < 0 THEN [err |-> "ValueError", integers |-> integers]
    ELSE [err |-> "none",
          integers |-> [i \in DOMAIN integers |->
                           IF bits[i] THEN BitOr(integers[i], 2^count - 1)
                           ELSE integers[i]]]

\* integers[i] | (2**count - 1) << start for every i with bits[i]; 2**count is a
\* float for count < 0 (TypeError on <<), a negative start is a negative shift
\* count (ValueError)
setBits(c, integers, start, count, bits) ==
    IF \A i \in DOMAIN bits : ~bits[i]
    THEN [err |-> "none", integers |-> integers]
    ELSE IF count < 0 THEN [err |-> "TypeError", integers |-> integers]
    ELSE IF start < 0 THEN [err |-> "ValueError", integers |-> integers]
    ELSE [err |-> "none",
          integers |-> [i \in DOMAIN integers |->
                           IF bits[i]
                           THEN BitOr(integers[i], ShiftLeft(2^count - 1, start))
                           ELSE integers[i]]]

\* struct.pack(">I", mult): four bytes, most significant first
HeaderBytes(mult) ==
    <<mult.hi * 64 + (mult.lo \div 16777216),
      (mult.lo \div 65536) % 256,
      (mult.lo \div 256) % 256,
      mult.lo % 256>>

\* pattern[::-1]
\* the pattern list left in channel order
NotReversed(s) == s

Reversed(s) == [i \in 1..Len(s) |-> s[Len(s) + 1 - i]]

\* swap[i] = s[i - 1] if i is odd else s[i + 1], indices from 0
SwapPairs(s) == [i \in 1..Len(s) |-> IF (i - 1) % 2 = 1 THEN s[i - 1] ELSE s[i + 1]]

\* the pattern list handed to struct.pack: for 24x4 two channels per byte
PackedPattern(c, pattern) ==
    IF c = "24x4"
    THEN [j \in 1..(n_channels(c) \div 2) |->
             BitOr(pattern[2 * (j - 1)], ShiftLeft(pattern[2 * (j - 1) + 1], 4))]
    ELSE [j \in 1..n_channels(c) |-> pattern[j - 1]]

pack(c, mult, pattern) ==
    IF BigIsNeg(mult) \/ mult.hi >= 4
    THEN [err |-> "struct.error", bytes |-> <<>>]
    ELSE [err |-> "none",
          bytes |-> SwapPairs(HeaderBytes(mult) \o Reversed(PackedPattern(c, pattern)))]

\* ONES * bits
Replicated(c, bits) == [i \in DOMAIN bits |-> IF bits[i] THEN ONES(c) ELSE 0]

\* n * s for a string s
RECURSIVE StrRepeat(_, _)
StrRepeat(n, s) == IF n <= 0 THEN <<>> ELSE s \o StrRepeat(n - 1, s)

\* the locals; bitsBound tells whether `bits` has been assigned, emitted counts
\* the bytes that pack has produced for buf (the padding is not among them)
InitFrame(c) ==
    [pattern |-> blank(c), index |-> 0, bits |-> NoBits(c), bitsBound |-> FALSE,
     buf |-> <<>>, err |-> "none", emitted |-> 0]

\* buf += pack(mult, pattern)
Emit(c, f, mult, pattern) ==
    LET p == pack(c, mult, pattern)
    IN  IF f.err # "none" THEN f
        ELSE IF p.err # "none" THEN [f EXCEPT !.err = p.err]
        ELSE [f EXCEPT !.buf = f.buf \o p.bytes,
                       !.emitted = f.emitted + Len(p.bytes)]

\* lines 311-316: the step fits into the current block
\* FitInBlock that leaves the cursor where it is
FitInBlockNoAdvance(c, f, ticks) ==
    LET sb == setBits(c, f.pattern, f.index, ticks, f.bits)
    IN  IF sb.err # "none" THEN [f EXCEPT !.err = sb.err]
        ELSE [f EXCEPT !.pattern = sb.integers]

FitInBlock(c, f, ticks) ==
    LET sb == setBits(c, f.pattern, f.index, ticks, f.bits)
    IN  IF sb.err # "none" THEN [f EXCEPT !.err = sb.err]
        ELSE [f EXCEPT !.pattern = sb.integers, !.index = f.index + ticks]

\* EmitRepetitions without the split at REP_MAX (line 253's ToDo left undone)
EmitRepetitionsUnsplit(c, f, repetitions) ==
    IF ~BigLt(BigOf(0), repetitions) THEN f
    ELSE Emit(c, f, BigSub(repetitions, BigOf(1)), Replicated(c, f.bits))

\* lines 329-336: the words of `repetitions` whole blocks
EmitRepetitions(c, f, repetitions) ==
    IF ~BigLt(BigOf(0), repetitions) THEN f
    ELSE IF BigLt(REP_MAX, repetitions)
    THEN LET multiplier == BigDiv(repetitions, REP_MAX)
             rest == BigMod(repetitions, REP_MAX)
             full == pack(c, BigSub(REP_MAX, BigOf(1)), Replicated(c, f.bits))
             many == StrRepeat(BigToInt(multiplier), full.bytes)
             f1 == [f EXCEPT !.buf = f.buf \o many, !.emitted = f.emitted + Len(many)]
         IN  Emit(c, f1, BigSub(rest, BigOf(1)), Replicated(c, f.bits))
    ELSE Emit(c, f, BigSub(repetitions, BigOf(1)), Replicated(c, f.bits))

\* EmitBlocks with line 322 (ticks -= CHANNEL_WIDTH - index) left out
EmitBlocksNoSubtract(c, f, ticks) ==
    LET CW == channel_width(c)
        sb == setBits(c, f.pattern, f.index, CW - f.index, f.bits)
        f1 == IF f.index > 0
              THEN [Emit(c, f, BigOf(0), sb.integers) EXCEPT !.pattern = blank(c)]
              ELSE f
        repetitions == BigDivSmall(ticks, CW)
        index == BigModSmall(ticks, CW)
        f2 == [EmitRepetitions(c, f1, repetitions) EXCEPT !.index = index]
    IN  IF f2.err # "none" THEN f2
        ELSE IF index > 0
        THEN [f2 EXCEPT !.pattern = setBits(c, blank(c), 0, index, f.bits).integers]
        ELSE f2

\* lines 317-339: fill and write the current block, write the whole blocks,
\* start a new block with the remainder
EmitBlocks(c, f, ticks) ==
    LET CW == channel_width(c)
        sb == setBits(c, f.pattern, f.index, CW - f.index, f.bits)
        f1 == IF f.index > 0
              THEN [Emit(c, f, BigOf(0), sb.integers) EXCEPT !.pattern = blank(c)]
              ELSE f
        ticks1 == IF f.index > 0 THEN BigSub(ticks, BigOf(CW - f.index)) ELSE ticks
        repetitions == BigDivSmall(ticks1, CW)
        index == BigModSmall(ticks1, CW)
        f2 == [EmitRepetitions(c, f1, repetitions) EXCEPT !.index = index]
    IN  IF f2.err # "none" THEN f2
        ELSE IF index > 0
        THEN [f2 EXCEPT !.pattern = setBits(c, blank(c), 0, index, f.bits).integers]
        ELSE f2

\* lines 304-339: one iteration of the for loop
LoopBody(c, f, step) ==
    LET ticks == Quantize(c, step.time)
        cb == createBitsFromChannels(c, step.channels)
        f1 == [f EXCEPT !.bits = cb.bits, !.bitsBound = TRUE]
    IN  IF BigIsZero(ticks) THEN f
        ELSE IF cb.err # "none" THEN [f EXCEPT !.err = cb.err]
        ELSE IF BigLt(BigAdd(BigOf(f.index), ticks), BigOf(channel_width(c)))
        THEN FitInBlock(c, f1, BigToInt(ticks))
        ELSE EmitBlocks(c, f1, ticks)

\* lines 340-354: the end of the program; `bits` is unbound when no step was kept
\* Terminate that pads the partial word of a non-looping program with low
TerminatePadLow(c, f, lp) ==
    LET CW == channel_width(c)
        f1 == IF f.index > 0
              THEN Emit(c, f, BigOf(0),
                        setBits(c, f.pattern, f.index, CW - f.index, NoBits(c)).integers)
              ELSE f
    IN  IF lp THEN f1
        ELSE IF ~f.bitsBound THEN [f EXCEPT !.err = "UnboundLocalError"]
        ELSE Emit(c, Emit(c, f1, REP_MAX, Replicated(c, f.bits)),
                  REP_MAX, Replicated(c, f.bits))

Terminate(c, f, lp) ==
    LET CW == channel_width(c)
    IN  IF lp
        THEN IF f.index > 0
             THEN Emit(c, f, BigOf(0),
                       setBits(c, f.pattern, f.index, CW - f.index, NoBits(c)).integers)
             ELSE f
        ELSE IF ~f.bitsBound THEN [f EXCEPT !.err = "UnboundLocalError"]
        ELSE LET f1 == IF f.index > 0
                       THEN Emit(c, f, BigOf(0),
                                 setBits(c, f.pattern, f.index, CW - f.index,
                                         f.bits).integers)
                       ELSE f
                 f2 == Emit(c, f1, REP_MAX, Replicated(c, f.bits))
             IN  Emit(c, f2, REP_MAX, Replicated(c, f.bits))

\* lines 356-358: buf + ((1024 - len(buf)) % 1024) * "\x00"
PadToPage(buf) == buf \o [i \in 1..((PAGE - Len(buf)) % PAGE) |-> 0]

\* lines 340-360
Finish(c, f, lp) ==
    LET f1 == Terminate(c, f, lp)
    IN  IF f1.err # "none" THEN f1 ELSE [f1 EXCEPT !.buf = PadToPage(f1.buf)]

RECURSIVE ForLoop(_, _, _, _)
ForLoop(c, f, seq, i) ==
    IF i > Len(seq) \/ f.err # "none" THEN f
    ELSE ForLoop(c, LoopBody(c, f, seq[i]), seq, i + 1)

\* the whole function: [err, buf]
convertSequenceToBinary(c, seq, lp) ==
    LET f == ForLoop(c, InitFrame(c), seq, 1)
    IN  IF f.err # "none" THEN f ELSE Finish(c, f, lp)

-----------------------------------------------------------------------------
(* The device controller.  The Device Link (ok.FrontPanel) is external: a  *)
(* state readback may return any state of state_map.                       *)

Commands == {"RUN", "LOAD", "RESET_READ", "RESET_SDRAM", "RESET_WRITE", "RETURN"}
command_map ==
    [c \in Commands |->
        CASE c = "RUN" -> 0
          [] c = "LOAD" -> 1
          [] c = "RESET_READ" -> 2
          [] c = "RESET_SDRAM" -> 3
          [] c = "RESET_WRITE" -> 4
          [] c = "RETURN" -> 5]
state_map ==
    [n \in 0..9 |->
        CASE n = 0 -> "IDLE"
          [] n = 1 -> "RESET_READ"
          [] n = 2 -> "RESET_SDRAM"
          [] n = 3 -> "RESET_WRITE"
          [] n = 4 -> "LOAD_0"
          [] n = 5 -> "LOAD_1"
          [] n = 6 -> "LOAD_2"
          [] n = 7 -> "READ_0"
          [] n = 8 -> "READ_1"
          [] n = 9 -> "READ_2"]

\* (old & ~mask) | (value & mask), bit by bit
RECURSIVE SetMasked(_, _, _)
SetMasked(old, value, mask) ==
    IF old = 0 /\ mask = 0 THEN 0
    ELSE (IF mask % 2 = 1 THEN value % 2 ELSE old % 2)
         + 2 * SetMasked(old \div 2, value \div 2, mask \div 2)

\* a statement of an operation: what it does, its argument, the method it is in
Stmt(o, w, n, m) == [op |-> o, what |-> w, n |-> n, meth |-> m]

\* halt without line 194 (disableDecoder)
haltNoDisable ==
    <<Stmt("sleep", "", 10, "halt"),
      Stmt("ctrlPulser", "RETURN", 0, "halt"),
      Stmt("checkState", "IDLE", 0, "halt")>>

halt ==
    <<Stmt("disableDecoder", "", 0, "halt"),
      Stmt("sleep", "", 10, "halt"),
      Stmt("ctrlPulser", "RETURN", 0, "halt"),
      Stmt("checkState", "IDLE", 0, "halt")>>

\* run without line 182 (self.halt())
runNoHalt(triggered) ==
    <<Stmt(IF triggered THEN "enableTrigger" ELSE "disableTrigger", "", 0, "run"),
      Stmt("ctrlPulser", "RESET_READ", 0, "run"),
      Stmt("sleep", "", 10, "run"),
      Stmt("ctrlPulser", "RUN", 0, "run"),
      Stmt("sleep", "", 10, "run"),
      Stmt("enableDecoder", "", 0, "run")>>

\* run with the decoder enabled before the RUN command
runEarlyEnable(triggered) ==
    halt \o
    <<Stmt(IF triggered THEN "enableTrigger" ELSE "disableTrigger", "", 0, "run"),
      Stmt("ctrlPulser", "RESET_READ", 0, "run"),
      Stmt("sleep", "", 10, "run"),
      Stmt("enableDecoder", "", 0, "run"),
      Stmt("ctrlPulser", "RUN", 0, "run"),
      Stmt("sleep", "", 10, "run")>>

run(triggered) ==
    halt \o
    <<Stmt(IF triggered THEN "enableTrigger" ELSE "disableTrigger", "", 0, "run"),
      Stmt("ctrlPulser", "RESET_READ", 0, "run"),
      Stmt("sleep", "", 10, "run"),
      Stmt("ctrlPulser", "RUN", 0, "run"),
      Stmt("sleep", "", 10, "run"),
      Stmt("enableDecoder", "", 0, "run")>>

\* loadPages with the length check after disableDecoder
loadPagesLateCheck ==
    <<Stmt("disableDecoder", "", 0, "loadPages"),
      Stmt("checkLen", "", 0, "loadPages"),
      Stmt("ctrlPulser", "RESET_WRITE", 0, "loadPages"),
      Stmt("sleep", "", 10, "loadPages"),
      Stmt("ctrlPulser", "LOAD", 0, "loadPages"),
      Stmt("checkState", "LOAD_0", 0, "loadPages"),
      Stmt("WriteToBlockPipeIn", "", 0, "loadPages"),
      Stmt("sleep", "", 10, "loadPages"),
      Stmt("checkState", "LOAD_0", 0, "loadPages"),
      Stmt("ctrlPulser", "RETURN", 0, "loadPages"),
      Stmt("checkState", "IDLE", 0, "loadPages")>>

\* loadPages with the block transfer ahead of the first readback
loadPagesEarlyTransfer ==
    <<Stmt("checkLen", "", 0, "loadPages"),
      Stmt("disableDecoder", "", 0, "loadPages"),
      Stmt("ctrlPulser", "RESET_WRITE", 0, "loadPages"),
      Stmt("sleep", "", 10, "loadPages"),
      Stmt("ctrlPulser", "LOAD", 0, "loadPages"),
      Stmt("WriteToBlockPipeIn", "", 0, "loadPages"),
      Stmt("checkState", "LOAD_0", 0, "loadPages"),
      Stmt("sleep", "", 10, "loadPages"),
      Stmt("checkState", "LOAD_0", 0, "loadPages"),
      Stmt("ctrlPulser", "RETURN", 0, "loadPages"),
      Stmt("checkState", "IDLE", 0, "loadPages")>>

loadPages ==
    <<Stmt("checkLen", "", 0, "loadPages"),
      Stmt("disableDecoder", "", 0, "loadPages"),
      Stmt("ctrlPulser", "RESET_WRITE", 0, "loadPages"),
      Stmt("sleep", "", 10, "loadPages"),
      Stmt("ctrlPulser", "LOAD", 0, "loadPages"),
      Stmt("checkState", "LOAD_0", 0, "loadPages"),
      Stmt("WriteToBlockPipeIn", "", 0, "loadPages"),
      Stmt("sleep", "", 10, "loadPages"),
      Stmt("checkState", "LOAD_0", 0, "loadPages"),
      Stmt("ctrlPulser", "RETURN", 0, "loadPages"),
      Stmt("checkState", "IDLE", 0, "loadPages")>>

\* reset without the sleeps after the commands
resetNoSettle ==
    <<Stmt("disableDecoder", "", 0, "reset"),
      Stmt("ctrlPulser", "RESET_WRITE", 0, "reset"),
      Stmt("ctrlPulser", "RESET_READ", 0, "reset"),
      Stmt("ctrlPulser", "RESET_SDRAM", 0, "reset")>>

reset ==
    <<Stmt("disableDecoder", "", 0, "reset"),
      Stmt("ctrlPulser", "RESET_WRITE", 0, "reset"),
      Stmt("sleep", "", 1, "reset"),
      Stmt("ctrlPulser", "RESET_READ", 0, "reset"),
      Stmt("sleep", "", 1, "reset"),
      Stmt("ctrlPulser", "RESET_SDRAM", 0, "reset"),
      Stmt("sleep", "", 10, "reset")>>

setSequence(triggered) ==
    halt \o <<Stmt("convertSequenceToBinary", "", 0, "setSequence")>>
         \o loadPages \o run(triggered)

setContinuous(bits) ==
    <<Stmt("setResetValue", "", bits, "setContinuous")>> \o halt

\* no call of pack on its own has been made
NoPack == [mult |-> BigOf(0), pattern |-> <<>>, out |-> <<>>, err |-> "none", done |-> FALSE]

\* pulse_generator_wrapper.py: PulseGeneratorClass(serial, channel_map, core) hands
\* core to __init__; the factory PulseGenerator(serial, channel_map, core) builds
\* PulseGeneratorClass(serial=serial, channel_map=channel_map), so __init__ takes
\* its default core
Makers == {"PulseGeneratorClass", "PulseGenerator"}
BuiltCore(by, requested) == IF by = "PulseGenerator" THEN "12x8" ELSE requested

\* the state after __init__: setResetValue(0), reset()
Constructed ==
    /\ wire = [ep \in 0..2 |-> IF ep = 0 THEN 1 ELSE 0]
    /\ op = [name |-> "none", triggered |-> FALSE, loopArg |-> ""]
    /\ status = "idle"
    /\ todo = <<>>
    /\ pages = <<>>
    /\ error = [kind |-> "none", expected |-> "", actual |-> ""]
    /\ calls = <<>>

-----------------------------------------------------------------------------
(* The compiler as a state machine: one action per iteration of the for    *)
(* loop and one for the code after it.                                     *)

CompileInit ==
    /\ core \in Cores
    /\ sequence \in Sequences
    /\ loop \in BOOLEAN
    /\ pos = "for"
    /\ k = 0
    /\ frame = InitFrame(core)
    /\ Constructed
    /\ made = [by |-> "PulseGeneratorClass", core |-> core]
    /\ packed = NoPack

CompileStep ==
    /\ pos = "for"
    /\ k < Len(sequence)
    /\ frame' = LoopBody(core, frame, sequence[k + 1])
    /\ k' = k + 1
    /\ pos' = IF frame'.err # "none" THEN "raised" ELSE "for"
    /\ UNCHANGED <<core, sequence, loop, made, packed>>
    /\ UNCHANGED dvars

CompileFinish ==
    /\ pos = "for"
    /\ k = Len(sequence)
    /\ frame' = Finish(core, frame, loop)
    /\ pos' = IF frame'.err # "none" THEN "raised" ELSE "returned"
    /\ UNCHANGED <<core, sequence, loop, k, made, packed>>
    /\ UNCHANGED dvars

CompileNext == CompileStep \/ CompileFinish

SpecCompile == CompileInit /\ [][CompileNext]_vars

-----------------------------------------------------------------------------
(* The controller as a state machine: one action per call of an operation  *)
(* and one per kind of statement.                                          *)

MaxPages == 2

ZeroBytes(n) == [i \in 1..n |-> 0]

\* buffers handed to loadPages directly: whole pages, and 1500 bytes
LoadBuffers == {ZeroBytes(n * PAGE) : n \in 0..MaxPages} \cup {ZeroBytes(1500)}

\* sequences handed to setSequence
ControllerSequences ==
    {<<>>,
     <<[channels |-> {"ch0"}, time |-> BigOf(12)]>>,
     <<[channels |-> {"ch0"}, time |-> BigOf(39)], [channels |-> {}, time |-> BigOf(12)]>>,
     <<[channels |-> {"nc"}, time |-> BigOf(12)]>>,
     <<[channels |-> {"ch3"}, time |-> [hi |-> 96, lo |-> 0]]>>}

\* integer arguments of setContinuous
Masks == {0, 1, 15}

NoError == [kind |-> "none", expected |-> "", actual |-> ""]

\* a Device Link call or a sleep: its kind, what it writes or reads, the number
\* it carries, the method that makes it; for a readback, the state checkState wants
Event(c, w, n) ==
    [call |-> c, what |-> w, n |-> n, meth |-> Head(todo).meth,
     wanted |-> IF Head(todo).op = "checkState" THEN Head(todo).what ELSE ""]

Callable == status = "idle"

BeginWith(name, triggered, loopArg, stmts) ==
    /\ Callable
    /\ op' = [name |-> name, triggered |-> triggered, loopArg |-> loopArg]
    /\ status' = "running"
    /\ todo' = stmts
    /\ error' = NoError
    /\ calls' = <<>>
    /\ UNCHANGED <<core, pos, k, made, packed, frame, wire>>

Begin(name, triggered, stmts) == BeginWith(name, triggered, "", stmts)

CallHalt ==
    /\ Begin("halt", FALSE, halt)
    /\ UNCHANGED <<sequence, loop, pages>>

CallRun ==
    /\ \E triggered \in BOOLEAN : Begin("run", triggered, run(triggered))
    /\ UNCHANGED <<sequence, loop, pages>>

CallLoadPages ==
    /\ Begin("loadPages", FALSE, loadPages)
    /\ pages' \in LoadBuffers
    /\ UNCHANGED <<sequence, loop>>

CallReset ==
    /\ Begin("reset", FALSE, reset)
    /\ UNCHANGED <<sequence, loop, pages>>

CallSetSequence ==
    /\ \E triggered \in BOOLEAN : Begin("setSequence", triggered, setSequence(triggered))
    /\ sequence' \in ControllerSequences
    /\ loop' \in BOOLEAN
    /\ UNCHANGED pages

\* pulse_generator_wrapper.py line 9-11: Sequence(sequence, loop=None) calls
\* self.setSequence(sequence, loop=True); triggered keeps its default, False
LoopArgs == {"None", "True", "False"}
\* Sequence that hands its loop argument on to setSequence
SequenceLoopPassed(loopArg) == loopArg = "True"

SequenceLoop(loopArg) == TRUE
SequenceTriggered == FALSE

CallSequence ==
    /\ \E loopArg \in LoopArgs :
          /\ BeginWith("Sequence", SequenceTriggered, loopArg, setSequence(SequenceTriggered))
          /\ loop' = SequenceLoop(loopArg)
    /\ sequence' \in ControllerSequences
    /\ UNCHANGED pages

\* lines 392-400: an integer is written as it is, names are resolved to a mask
CallSetContinuousMask ==
    /\ \E bits \in Masks : Begin("setContinuous", FALSE, setContinuous(bits))
    /\ UNCHANGED <<sequence, loop, pages>>

RECURSIVE MaskOf(_)
MaskOf(channels) ==
    IF channels = {} THEN 0
    ELSE LET ch == CHOOSE x \in channels : TRUE
         IN  BitOr(ShiftLeft(1, channel_map[ch]), MaskOf(channels \ {ch}))

CallSetContinuousNames ==
    /\ Callable
    /\ \E channels \in ChannelSets :
          IF channels \subseteq DOMAIN channel_map
          THEN Begin("setContinuous", FALSE, setContinuous(MaskOf(channels)))
          ELSE /\ op' = [name |-> "setContinuous", triggered |-> FALSE, loopArg |-> ""]
               /\ status' = "raised"
               /\ todo' = <<>>
               /\ error' = [kind |-> "KeyError", expected |-> "", actual |-> ""]
               /\ calls' = <<>>
               /\ UNCHANGED <<core, pos, k, made, packed, frame, wire>>
    /\ UNCHANGED <<sequence, loop, pages>>

Running(o) == status = "running" /\ todo # <<>> /\ Head(todo).op = o

\* the statement returned: go on with the next one, or return
Advance ==
    /\ todo' = Tail(todo)
    /\ status' = IF Len(todo) = 1 THEN "returned" ELSE "running"
    /\ error' = error

\* the statement raised: the exception leaves the operation
Raise(e) ==
    /\ todo' = <<>>
    /\ status' = "raised"
    /\ error' = e

\* enableDecoder, disableDecoder: SetWireInValue(0x00, value, 1), UpdateWireIns
\* enableTrigger, disableTrigger: SetWireInValue(0x00, value, 2), UpdateWireIns
WireValue(o) == IF o \in {"disableDecoder", "enableTrigger"} THEN 255 ELSE 0
WireMask(o) == IF o \in {"disableDecoder", "enableDecoder"} THEN 1 ELSE 2

DoWire ==
    /\ \E o \in {"enableDecoder", "disableDecoder", "enableTrigger", "disableTrigger"} :
          /\ Running(o)
          /\ wire' = [wire EXCEPT ![0] = SetMasked(wire[0], WireValue(o), WireMask(o))]
          /\ calls' = Append(calls, Event("SetWireInValue", o, wire'[0]))
    /\ Advance
    /\ UNCHANGED <<core, sequence, loop, pos, k, made, packed, frame, op, pages>>

\* setResetValue: 0x01 gets the low half, on 24x4 0x02 gets the high half
DoSetResetValue ==
    /\ Running("setResetValue")
    /\ wire' = [wire EXCEPT
                   ![1] = SetMasked(wire[1], Head(todo).n, 65535),
                   ![2] = IF core = "24x4"
                          THEN SetMasked(wire[2], Head(todo).n \div 65536, 65535)
                          ELSE wire[2]]
    /\ calls' = Append(calls, Event("SetWireInValue", "setResetValue", Head(todo).n))
    /\ Advance
    /\ UNCHANGED <<core, sequence, loop, pos, k, made, packed, frame, op, pages>>

\* ctrlPulser: ActivateTriggerIn(0x40, command_map[command])
DoCtrlPulser ==
    /\ Running("ctrlPulser")
    /\ calls' = Append(calls, Event("ActivateTriggerIn", Head(todo).what,
                                    command_map[Head(todo).what]))
    /\ Advance
    /\ UNCHANGED <<core, sequence, loop, pos, k, made, packed, frame, op, pages, wire>>

\* time.sleep, in milliseconds
DoSleep ==
    /\ Running("sleep")
    /\ calls' = Append(calls, Event("sleep", "", Head(todo).n))
    /\ Advance
    /\ UNCHANGED <<core, sequence, loop, pos, k, made, packed, frame, op, pages, wire>>

\* checkState that reads the state again after a mismatch instead of raising
DoCheckStateRetry ==
    /\ Running("checkState")
    /\ \E code \in DOMAIN state_map :
          /\ calls' = Append(calls, Event("GetWireOutValue", state_map[code], code))
          /\ IF state_map[code] # Head(todo).what
             THEN UNCHANGED <<todo, status, error>>
             ELSE Advance
    /\ UNCHANGED <<core, sequence, loop, pos, k, made, packed, frame, op, pages, wire>>

\* checkState: getState reads wire-out 0x21, a mismatch raises RuntimeError
DoCheckState ==
    /\ Running("checkState")
    /\ \E code \in DOMAIN state_map :
          LET actual == state_map[code]
              wanted == Head(todo).what
          IN  /\ calls' = Append(calls, Event("GetWireOutValue", actual, code))
              /\ IF actual # wanted
                 THEN Raise([kind |-> "RuntimeError", expected |-> wanted,
                             actual |-> actual])
                 ELSE Advance
    /\ UNCHANGED <<core, sequence, loop, pos, k, made, packed, frame, op, pages, wire>>

\* lines 200-203
DoCheckLen ==
    /\ Running("checkLen")
    /\ IF Len(pages) % PAGE # 0
       THEN Raise([kind |-> "RuntimeError", expected |-> "", actual |-> ""])
       ELSE Advance
    /\ UNCHANGED <<core, sequence, loop, pos, k, made, packed, frame, op, pages, wire, calls>>

\* line 209
DoWriteToBlockPipeIn ==
    /\ Running("WriteToBlockPipeIn")
    /\ calls' = Append(calls, Event("WriteToBlockPipeIn", "", Len(pages)))
    /\ Advance
    /\ UNCHANGED <<core, sequence, loop, pos, k, made, packed, frame, op, pages, wire>>

\* line 378: the argument of loadPages is the compiled program
DoCompile ==
    /\ Running("convertSequenceToBinary")
    /\ frame' = convertSequenceToBinary(core, sequence, loop)
    /\ IF frame'.err # "none"
       THEN /\ Raise([kind |-> frame'.err, expected |-> "", actual |-> ""])
            /\ pages' = pages
       ELSE /\ Advance
            /\ pages' = frame'.buf
    /\ UNCHANGED <<core, sequence, loop, pos, k, made, packed, op, wire, calls>>

\* the caller has the result or the exception; the arguments and locals of the
\* operation are gone, the registers of the device stay as they are
Return ==
    /\ status \in {"returned", "raised"}
    /\ status' = "idle"
    /\ todo' = <<>>
    /\ op' = [name |-> "none", triggered |-> FALSE, loopArg |-> ""]
    /\ sequence' = <<>>
    /\ loop' = TRUE
    /\ frame' = InitFrame(core)
    /\ pages' = <<>>
    /\ error' = NoError
    /\ calls' = <<>>
    /\ UNCHANGED <<core, pos, k, made, packed, wire>>

Init ==
    /\ made \in [by : Makers, core : Cores]
    /\ core = BuiltCore(made.by, made.core)
    /\ sequence = <<>>
    /\ loop = TRUE
    /\ pos = "for"
    /\ k = 0
    /\ frame = InitFrame(core)
    /\ Constructed
    /\ packed = NoPack

Next ==
    \/ CallHalt
    \/ CallRun
    \/ CallLoadPages
    \/ CallReset
    \/ CallSetSequence
    \/ CallSequence
    \/ CallSetContinuousMask
    \/ CallSetContinuousNames
    \/ DoWire
    \/ DoSetResetValue
    \/ DoCtrlPulser
    \/ DoSleep
    \/ DoCheckState
    \/ DoCheckLen
    \/ DoWriteToBlockPipeIn
    \/ DoCompile
    \/ Return

Spec == Init /\ [][Next]_vars

-----------------------------------------------------------------------------
(* pack on its own: one call on a multiplier and a pattern list.           *)

\* multipliers of 32 bits: 0, 1, 255, 256, 2^16 + 2, 0x01020304, 2^30, 2^31 - 1,
\* 2^31, 0x80000001, 0xFFFEFDFC and 2^32 - 1
PackMultipliers ==
    {BigOf(0), BigOf(1), BigOf(255), BigOf(256), BigOf(65538), BigOf(16909060),
     [hi |-> 1, lo |-> 0], [hi |-> 1, lo |-> Base - 1], [hi |-> 2, lo |-> 0],
     [hi |-> 2, lo |-> 1], [hi |-> 3, lo |-> Base - 66052], [hi |-> 3, lo |-> Base - 1]}

\* pattern lists: all lanes 0, all lanes full, every channel a lane of its own,
\* and channels 0 and 1 alone
PackPatterns(c) ==
    {blank(c),
     [i \in 0..(n_channels(c) - 1) |-> ONES(c)],
     [i \in 0..(n_channels(c) - 1) |-> (7 * i + 3) % (ONES(c) + 1)],
     [i \in 0..(n_channels(c) - 1) |-> IF i = 0 THEN 1 ELSE IF i = 1 THEN 2 ELSE 0]}

PackInit ==
    /\ core \in Cores
    /\ packed \in [mult : PackMultipliers, pattern : PackPatterns(core), out : {<<>>},
                    err : {"none"}, done : {FALSE}]
    /\ sequence = <<>>
    /\ loop = TRUE
    /\ pos = "for"
    /\ k = 0
    /\ frame = InitFrame(core)
    /\ Constructed
    /\ made = [by |-> "PulseGeneratorClass", core |-> core]

CallPack ==
    /\ ~packed.done
    /\ LET p == pack(core, packed.mult, packed.pattern)
       IN  packed' = [packed EXCEPT !.out = p.bytes, !.err = p.err, !.done = TRUE]
    /\ UNCHANGED <<core, sequence, loop, pos, k, frame, made>>
    /\ UNCHANGED dvars

SpecPack == PackInit /\ [][CallPack]_vars

-----------------------------------------------------------------------------
(* Decoding a program, as the device reads it: 16 byte words, the byte     *)
(* pairs swapped back, a 32 bit header (command bit, 31 bit repetition)    *)
(* and one lane per channel.                                               *)

WORD == 16

NumWords(buf) == Len(buf) \div WORD
WordAt(buf, j) == SwapPairs(SubSeq(buf, WORD * (j - 1) + 1, WORD * j))
HeaderOf(w) ==
    [hi |-> w[1] \div 64, lo |-> (w[1] % 64) * 16777216 + w[2] * 65536 + w[3] * 256 + w[4]]
\* the repetition field: the header without its top bit
RepetitionOf(w) == BigMod(HeaderOf(w), REP_MAX)
\* the pattern of channel i: byte 16 - i for 8 bit lanes, a nibble for 4 bit lanes
LaneOf(c, w, i) ==
    IF c = "24x4"
    THEN LET b == w[WORD - (i \div 2)]
         IN  IF i % 2 = 1 THEN b \div 16 ELSE b % 16
    ELSE w[WORD - i]

\* the words that pack produced, without the zero padding
ProgramWords == frame.emitted \div WORD

\* the two park words end a non-looping program
IsParkWord(j) ==
    /\ ~loop
    /\ pos = "returned"
    /\ j \in {ProgramWords - 1, ProgramWords}

\* quantized ticks of step i of the sequence
TicksOf(i) == Quantize(core, sequence[i].time)

RECURSIVE SumTicks(_)
SumTicks(n) == IF n = 0 THEN BigOf(0) ELSE BigAdd(SumTicks(n - 1), TicksOf(n))

AllNonNegative == \A i \in 1..Len(sequence) : ~BigIsNeg(sequence[i].time)

\* sum of repetition + 1 over words first..last of buf
RECURSIVE SumRepeats(_, _, _)
SumRepeats(buf, first, last) ==
    IF first > last THEN BigOf(0)
    ELSE BigAdd(SumRepeats(buf, first, last - 1),
                BigAdd(RepetitionOf(WordAt(buf, last)), BigOf(1)))

-----------------------------------------------------------------------------
(* Claims about the compiler, checked under SpecCompile.                   *)

\* C1: the program convertSequenceToBinary returns has a length that is a
\* positive multiple of 1024 bytes, for any sequence and either loop mode.
C1_PositivePages ==
    pos = "returned" => Len(frame.buf) > 0 /\ Len(frame.buf) % PAGE = 0

\* C2: compiling the empty sequence succeeds and returns exactly one page of
\* 1024 zero bytes, in both loop modes.
C2_EmptyIsOneZeroPage ==
    (sequence = <<>> /\ pos # "for")
        => (pos = "returned" /\ frame.buf = ZeroBytes(PAGE))

\* C3: every word in the buffer carries a repetition in 0 .. 2^31 - 1: its 32 bit
\* header is below 2^31, except for the two park words of a non-looping program,
\* whose header is exactly 2^31.
C3_RepetitionInRange ==
    \A j \in 1..NumWords(frame.buf) :
        LET h == HeaderOf(WordAt(frame.buf, j))
        IN  IF IsParkWord(j) THEN h = REP_MAX
            ELSE ~BigIsNeg(h) /\ BigLt(h, REP_MAX)

\* C3 witness: a returned non-looping program that holds a split word of maximum
\* repetition 2^31 - 1 and its two park words.
C3_Witness ==
    /\ pos = "returned"
    /\ ~loop
    /\ \E j \in 1..ProgramWords :
          HeaderOf(WordAt(frame.buf, j)) = BigSub(REP_MAX, BigOf(1))
    /\ HeaderOf(WordAt(frame.buf, ProgramWords)) = REP_MAX

\* whole-block repeat count of a step that starts on a block boundary
WholeRepeats(i) == BigDivSmall(TicksOf(i), channel_width(core))

\* C4: a single step whose whole-block repeat count R exceeds 2^31 is compiled
\* to words whose (repetition + 1) sum to exactly R, for every such R: once the
\* for loop has run over the step, it has not raised and the words add up.
C4_SplitPreservesRepeats ==
    (/\ Len(sequence) = 1
     /\ k = 1
     /\ pos # "returned"
     /\ createBitsFromChannels(core, sequence[1].channels).err = "none"
     /\ BigLt(REP_MAX, WholeRepeats(1)))
        => (/\ pos = "for"
            /\ SumRepeats(frame.buf, 1, NumWords(frame.buf)) = WholeRepeats(1))

\* a tick count rounded up to whole blocks
RoundUpToBlock(t) ==
    BigAdd(t, BigOf((channel_width(core) - BigModSmall(t, channel_width(core)))
                        % channel_width(core)))

\* ticks of a returned non-looping program without its two park words, each word
\* counted as channel_width * (repetition + 1)
DecodedTicks ==
    BigMulSmall(SumRepeats(frame.buf, 1, ProgramWords - 2), channel_width(core))

\* C5 as stated: for a non-looping sequence (durations not negative) the decoded
\* ticks, park words excluded, equal the exact sum of the quantized ticks.
C5_DecodedEqualsSum ==
    (pos = "returned" /\ ~loop /\ AllNonNegative)
        => DecodedTicks = SumTicks(Len(sequence))

\* C5 amended: the decoded ticks, park words excluded, equal the sum of the
\* quantized ticks rounded up to a whole number of blocks, because the last,
\* partial block is written as a full word.
C5_DecodedEqualsSumRoundedUp ==
    (pos = "returned" /\ ~loop /\ AllNonNegative)
        => DecodedTicks = RoundUpToBlock(SumTicks(Len(sequence)))

\* C5 witness: a returned non-looping program of two kept steps whose ticks do
\* not add up to whole blocks.
C5_Witness ==
    /\ pos = "returned"
    /\ ~loop
    /\ AllNonNegative
    /\ Len(sequence) = 2
    /\ \A i \in 1..2 : ~BigIsZero(TicksOf(i))
    /\ BigModSmall(SumTicks(2), channel_width(core)) # 0

-----------------------------------------------------------------------------
(* The level of one lane over time, as runs [level, len] of equal level.   *)
(* Tick t of a word is bit t of the lane (setBits fills from bit 0 up).    *)

AppendRun(runs, level, len) ==
    IF BigIsZero(len) THEN runs
    ELSE IF runs # <<>> /\ runs[Len(runs)].level = level
    THEN [runs EXCEPT ![Len(runs)].len = BigAdd(runs[Len(runs)].len, len)]
    ELSE Append(runs, [level |-> level, len |-> len])

RECURSIVE BitRuns(_, _, _)
BitRuns(runs, v, n) ==
    IF n = 0 THEN runs
    ELSE BitRuns(AppendRun(runs, v % 2 = 1, BigOf(1)), v \div 2, n - 1)

\* the runs of lane i over words 1..n of buf; a word that repeats a mixed lane
\* has no run form and is marked with a run of length -1
RECURSIVE DecodedRuns(_, _, _)
DecodedRuns(buf, i, n) ==
    IF n = 0 THEN <<>>
    ELSE LET w == WordAt(buf, n)
             v == LaneOf(core, w, i)
             r == RepetitionOf(w)
             before == DecodedRuns(buf, i, n - 1)
             len == BigMulSmall(BigAdd(r, BigOf(1)), channel_width(core))
         IN  IF v = 0 THEN AppendRun(before, FALSE, len)
             ELSE IF v = ONES(core) THEN AppendRun(before, TRUE, len)
             ELSE IF BigIsZero(r) THEN BitRuns(before, v, channel_width(core))
             ELSE Append(before, [level |-> TRUE, len |-> BigOf(-1)])

\* the runs the first n steps ask of lane i
RECURSIVE ExpectedRuns(_, _)
ExpectedRuns(i, n) ==
    IF n = 0 THEN <<>>
    ELSE AppendRun(ExpectedRuns(i, n - 1),
                   \E ch \in sequence[n].channels : channel_map[ch] = i,
                   TicksOf(n))

TrimLow(runs) ==
    IF runs # <<>> /\ ~runs[Len(runs)].level THEN SubSeq(runs, 1, Len(runs) - 1)
    ELSE runs

\* the channels of the registry that the core has
ValidChannels == {ch \in ChannelNames : channel_map[ch] < n_channels(core)}

\* every step has only channel ch active, or none
UsesOnly(ch) == \A n \in 1..Len(sequence) : sequence[n].channels \subseteq {ch}

Lanes == 0..(n_channels(core) - 1)

\* the last step that is not dropped
KeptSteps == {n \in 1..Len(sequence) : ~BigIsZero(TicksOf(n))}
LastKept == CHOOSE n \in KeptSteps : \A m \in KeptSteps : m <= n

\* what follows the last tick of the sequence: the rest of the last block, and
\* in a non-looping program the two park words
TailLen ==
    BigAdd(BigSub(RoundUpToBlock(SumTicks(Len(sequence))), SumTicks(Len(sequence))),
           BigOf(IF loop THEN 0 ELSE 2 * channel_width(core)))
TailLevel(i) ==
    /\ ~loop
    /\ KeptSteps # {}
    /\ \E ch \in sequence[LastKept].channels : channel_map[ch] = i

\* C6 as stated: for a sequence that uses only channel c, lane c of the decoded
\* program is high at exactly the ticks of the steps that have c active and low
\* at every other tick, and every other lane is low at every tick.
C6_LaneHighExactlyInSteps ==
    (pos = "returned" /\ AllNonNegative)
        => \A ch \in ValidChannels :
              UsesOnly(ch) =>
                  \A i \in Lanes :
                      TrimLow(DecodedRuns(frame.buf, i, ProgramWords))
                          = TrimLow(ExpectedRuns(i, Len(sequence)))

\* C6 amended: up to the last tick of the sequence lane c is high at exactly the
\* ticks of the steps that have c active, and every other lane is low at every
\* tick; after the last tick (the rest of the last block, and the park words of
\* a non-looping program) a looping program is low and a non-looping program
\* holds the level of its last kept step.
C6_LaneFollowsStepsThenTail ==
    (pos = "returned" /\ AllNonNegative)
        => \A ch \in ValidChannels :
              UsesOnly(ch) =>
                  \A i \in Lanes :
                      DecodedRuns(frame.buf, i, ProgramWords)
                          = AppendRun(ExpectedRuns(i, Len(sequence)),
                                      TailLevel(i), TailLen)

\* C6 witness: a returned program of two kept steps on channel ch0 alone, one
\* high and one low, that ends inside a block.
C6_Witness ==
    /\ pos = "returned"
    /\ AllNonNegative
    /\ UsesOnly("ch0")
    /\ Len(sequence) = 2
    /\ KeptSteps = {1, 2}
    /\ sequence[1].channels # sequence[2].channels
    /\ BigModSmall(SumTicks(2), channel_width(core)) # 0

-----------------------------------------------------------------------------
(* Claims about the controller, checked under Spec.                        *)

IsCmd(e, c) == e.call = "ActivateTriggerIn" /\ e.what = c
IsReadback(e) == e.call = "GetWireOutValue"
IsMismatch(e) == IsReadback(e) /\ e.what # e.wanted

\* bit 0 of wire-in 0x00 is set: the decoder is disabled
DecoderDisabled == wire[0] % 2 = 1

\* a LOAD command of the operation has no RETURN after it
MidLoad ==
    \E p \in 1..Len(calls) :
        /\ IsCmd(calls[p], "LOAD")
        /\ \A q \in (p + 1)..Len(calls) : ~IsCmd(calls[q], "RETURN")

\* C7 as stated: whenever setSequence fails, decoding is disabled and the device
\* is not between a LOAD command and its RETURN.
C7_FailureLeavesHalted ==
    (op.name = "setSequence" /\ status = "raised")
        => (DecoderDisabled /\ ~MidLoad)

\* C7 amended: whenever setSequence fails, decoding is disabled; the device is
\* left between LOAD and its RETURN exactly when the failure is a readback other
\* than LOAD_0 in loadPages (no RETURN is sent after it), and in no other case.
C7_FailureLeavesDecoderOffAndMidLoadOnlyAfterLoad ==
    (op.name = "setSequence" /\ status = "raised")
        => (/\ DecoderDisabled
            /\ MidLoad <=> (error.kind = "RuntimeError" /\ error.expected = "LOAD_0"))

\* C7 witness: setSequence has loaded its pages and fails in the halt of run.
C7_Witness ==
    /\ op.name = "setSequence"
    /\ status = "raised"
    /\ \E p \in 1..Len(calls) : calls[p].call = "WriteToBlockPipeIn"
    /\ calls[Len(calls)].meth = "halt"
    /\ error.expected = "IDLE"

\* C8: loadPages with a buffer that is not a whole number of pages raises before
\* any Device Link call: the operation makes no call at all and only raises.
C8_UnalignedFailsBeforeAnyCall ==
    (op.name = "loadPages" /\ Len(pages) % PAGE # 0)
        => (/\ calls = <<>>
            /\ status \in {"running", "raised"}
            /\ status = "running" => Head(todo).op = "checkLen"
            /\ status = "raised" => error.kind = "RuntimeError")

\* C8 witness: loadPages of 1500 bytes has raised.
C8_Witness ==
    /\ op.name = "loadPages"
    /\ Len(pages) = 1500
    /\ status = "raised"

\* C9: a state readback that differs from the wanted state is the last call of
\* the operation, and the operation has raised the state error that carries the
\* wanted and the actual state.
C9_MismatchIsFatal ==
    \A p \in 1..Len(calls) :
        IsMismatch(calls[p])
            => (/\ p = Len(calls)
                /\ status = "raised"
                /\ error = [kind |-> "RuntimeError", expected |-> calls[p].wanted,
                            actual |-> calls[p].what])

\* C9 witness: loadPages reads LOAD_1 back after LOAD and raises with expected
\* LOAD_0 and actual LOAD_1, before any block transfer.
C9_Witness ==
    /\ op.name = "loadPages"
    /\ status = "raised"
    /\ error = [kind |-> "RuntimeError", expected |-> "LOAD_0", actual |-> "LOAD_1"]
    /\ Len(calls) > 1
    /\ IsCmd(calls[Len(calls) - 1], "LOAD")
    /\ \A p \in 1..Len(calls) : calls[p].call # "WriteToBlockPipeIn"

IdleReadBefore(p) ==
    \E q \in 1..(p - 1) : IsReadback(calls[q]) /\ calls[q].what = "IDLE"

SequencingStartsAfterIdle ==
    \A p \in 1..Len(calls) :
        (IsCmd(calls[p], "RESET_WRITE") \/ IsCmd(calls[p], "RESET_READ"))
            => IdleReadBefore(p)

\* C10 as stated: in loadPages, run and setSequence, each also called on its
\* own, IDLE has been read back before RESET_WRITE/LOAD or RESET_READ/RUN.
C10_IdleBeforeSequencing ==
    op.name \in {"loadPages", "run", "setSequence"} => SequencingStartsAfterIdle

\* C10 amended: in run and setSequence IDLE has been read back before
\* RESET_WRITE/LOAD or RESET_READ/RUN; loadPages called on its own sends
\* RESET_WRITE and LOAD without any state readback before them.
C10_IdleBeforeSequencingInRunAndSetSequence ==
    /\ op.name \in {"run", "setSequence"} => SequencingStartsAfterIdle
    /\ op.name = "loadPages" =>
          \A p \in 1..Len(calls) :
              IsCmd(calls[p], "LOAD") => \A q \in 1..(p - 1) : ~IsReadback(calls[q])

\* C10 witness: setSequence has sent LOAD and RUN.
C10_Witness ==
    /\ op.name = "setSequence"
    /\ \E p \in 1..Len(calls) : IsCmd(calls[p], "LOAD")
    /\ \E p \in 1..Len(calls) : IsCmd(calls[p], "RUN")

-----------------------------------------------------------------------------
(* The order of the Device Link calls of an operation.                     *)

\* the Device Link calls of the operation, the sleeps left out
NotSleep(e) == e.call # "sleep"
LinkCalls == SelectSeq(calls, NotSleep)

\* the event is the call <<kind, what>>; for a readback `what` is the state
\* checkState wants
IsCall(e, x) ==
    /\ e.call = x[1]
    /\ IF IsReadback(e) THEN e.wanted = x[2] ELSE e.what = x[2]

\* the calls made so far are the first calls of `order`, in order
FollowsOrder(s, order) ==
    /\ Len(s) <= Len(order)
    /\ \A p \in 1..Len(s) : IsCall(s[p], order[p])

\* the readback at position p of s, if made, has read the state it wanted
Confirmed(s, p) == Len(s) > p => s[p].what = s[p].wanted

RunOrder(triggered) ==
    << <<"SetWireInValue", "disableDecoder">>,
       <<"ActivateTriggerIn", "RETURN">>,
       <<"GetWireOutValue", "IDLE">>,
       <<"SetWireInValue", IF triggered THEN "enableTrigger" ELSE "disableTrigger">>,
       <<"ActivateTriggerIn", "RESET_READ">>,
       <<"ActivateTriggerIn", "RUN">>,
       <<"SetWireInValue", "enableDecoder">> >>

\* bit 1 of wire-in 0x00: the trigger gate
TriggerGate == (wire[0] \div 2) % 2 = 1

\* C11: run(triggered) makes its calls in this order: the halt (decoder disabled,
\* RETURN, IDLE read back), the write of the trigger gate, RESET_READ, RUN, the
\* enabling of the decoder.  The trigger gate is written only after IDLE has been
\* confirmed, the decoder is disabled from the first call until RUN has been
\* issued and is enabled only by the last call, and run returns only after it.
C11_RunOrder ==
    op.name = "run" =>
        /\ FollowsOrder(LinkCalls, RunOrder(op.triggered))
        /\ Confirmed(LinkCalls, 3)
        /\ Len(LinkCalls) \in 1..6 => DecoderDisabled
        /\ Len(LinkCalls) >= 4 => (TriggerGate <=> op.triggered)
        /\ Len(LinkCalls) = 7 => ~DecoderDisabled
        /\ status = "returned" => Len(LinkCalls) = 7

\* a triggered run has returned
C11_Witness ==
    /\ op.name = "run"
    /\ op.triggered
    /\ status = "returned"
    /\ Len(LinkCalls) = 7

\* the Device Link calls that loadPages makes, alone or inside setSequence
IsLoadCall(e) == e.call # "sleep" /\ e.meth = "loadPages"
LoadCalls == SelectSeq(calls, IsLoadCall)

LoadOrder ==
    << <<"SetWireInValue", "disableDecoder">>,
       <<"ActivateTriggerIn", "RESET_WRITE">>,
       <<"ActivateTriggerIn", "LOAD">>,
       <<"GetWireOutValue", "LOAD_0">>,
       <<"WriteToBlockPipeIn", "">>,
       <<"GetWireOutValue", "LOAD_0">>,
       <<"ActivateTriggerIn", "RETURN">>,
       <<"GetWireOutValue", "IDLE">> >>

\* loadPages has gone through all its calls and has read back IDLE at the end
LoadDone == Len(LoadCalls) = 8 /\ LoadCalls[8].what = "IDLE"

\* C12: loadPages on a buffer of whole pages makes its calls in this order:
\* decoder disabled, RESET_WRITE, LOAD, readback LOAD_0, block transfer, readback
\* LOAD_0, RETURN, readback IDLE.  The transfer is made only after LOAD_0 has been
\* read back and with the decoder disabled, RETURN only after the second LOAD_0,
\* and loadPages returns (and setSequence goes on to run) only after IDLE has
\* been read back.
C12_LoadOrder ==
    /\ FollowsOrder(LoadCalls, LoadOrder)
    /\ Confirmed(LoadCalls, 4)
    /\ Confirmed(LoadCalls, 6)
    /\ LoadCalls # <<>> => Len(pages) % PAGE = 0
    /\ (calls # <<>> /\ calls[Len(calls)].meth = "loadPages") => DecoderDisabled
    /\ (op.name = "loadPages" /\ status = "returned") => LoadDone
    /\ (/\ op.name \in {"setSequence", "Sequence"}
        /\ \E p \in 1..Len(calls) : calls[p].meth = "run") => LoadDone

\* loadPages has returned after a transfer of one page or more
C12_Witness ==
    /\ op.name = "loadPages"
    /\ status = "returned"
    /\ Len(pages) >= PAGE
    /\ LoadDone

-----------------------------------------------------------------------------
(* More claims about the compiler, checked under SpecCompile.              *)

\* the step names a channel that is not in the registry of the core: an unknown
\* name, or a bit index outside 0..n_channels-1
NamesInvalid(n) == ~(sequence[n].channels \subseteq ValidChannels)
InvalidErrors == {"KeyError", "IndexError"}

\* the first step that is not dropped and names a channel not in the registry
KeptInvalid == {n \in KeptSteps : NamesInvalid(n)}
FirstKeptInvalid == CHOOSE n \in KeptInvalid : \A m \in KeptInvalid : n <= m

\* C13: when some step of the sequence names a channel that is not in the
\* registry, the compile ends with an error and returns no program, and the
\* error a step with such a channel raises is an invalid-channel error.
C13_InvalidChannelFails ==
    ((\E n \in 1..Len(sequence) : NamesInvalid(n)) /\ pos # "for")
        => (pos = "raised" /\ (NamesInvalid(k) => frame.err \in InvalidErrors))

\* C13, amended: when some step that is not dropped (its quantized tick count is
\* not 0) names a channel that is not in the registry, the for loop never gets
\* past the first such step and no program is returned; the error raised at that
\* step is KeyError or IndexError.  (An earlier step may have raised before.)
C13_KeptInvalidChannelFails ==
    KeptInvalid # {} =>
        /\ k <= FirstKeptInvalid
        /\ pos # "returned"
        /\ k = FirstKeptInvalid => (pos = "raised" /\ frame.err \in InvalidErrors)

\* the second step is the first to name an unknown channel and the compile has
\* raised there
C13_Witness ==
    /\ KeptInvalid # {}
    /\ FirstKeptInvalid = 2
    /\ k = 2
    /\ pos = "raised"
    /\ frame.err = "KeyError"

\* the steps whose quantized tick count is positive
HasPositiveTicks(step) ==
    LET ticks == Quantize(core, step.time)
    IN  ~BigIsNeg(ticks) /\ ~BigIsZero(ticks)
PositiveSteps == SelectSeq(sequence, HasPositiveTicks)

\* C14: a step whose quantized tick count is zero or negative is dropped
\* silently: the compile ends as the compile of the sequence without these steps
\* ends, with the same error or none and the same program.
C14_NonPositiveDropped ==
    (pos # "for" /\ PositiveSteps # sequence) =>
        LET r == convertSequenceToBinary(core, PositiveSteps, loop)
        IN  /\ frame.err = r.err
            /\ frame.err = "none" => frame.buf = r.buf

-----------------------------------------------------------------------------
(* More claims about the controller, checked under Spec.                   *)

IsPulse(e) == e.call = "ActivateTriggerIn"
IsSleep(e) == e.call = "sleep"

\* a sleep lies between the calls at positions p and q
SleepBetween(p, q) == \E r \in (p + 1)..(q - 1) : IsSleep(calls[r])

\* C15: between each command pulse and the next readback of the state a settle
\* delay has completed: no readback follows a command pulse with no sleep
\* between the two.
C15_SettleBeforeReadback ==
    \A p \in 1..Len(calls) : \A q \in (p + 1)..Len(calls) :
        (IsPulse(calls[p]) /\ IsReadback(calls[q])) => SleepBetween(p, q)

\* the commands that the code lets settle, and those it reads back at once
SettledCommands == {"RESET_WRITE", "RESET_READ", "RESET_SDRAM", "RUN"}
UnsettledCommands == {"RETURN", "LOAD"}

\* C15, amended: a sleep directly follows each RESET_WRITE, RESET_READ,
\* RESET_SDRAM and RUN pulse; a readback of the state directly follows each
\* RETURN and LOAD pulse, with no sleep between the two; any other readback
\* directly follows a sleep.
C15_SettleAfterResetAndRun ==
    \A p \in 1..(Len(calls) - 1) :
        /\ (IsPulse(calls[p]) /\ calls[p].what \in SettledCommands)
              => IsSleep(calls[p + 1])
        /\ (IsPulse(calls[p]) /\ calls[p].what \in UnsettledCommands)
              => IsReadback(calls[p + 1])
        /\ IsReadback(calls[p + 1]) => (IsPulse(calls[p]) \/ IsSleep(calls[p]))

\* a setSequence has returned: it has read the state back right after LOAD and
\* has slept right after RUN
C15_Witness ==
    /\ op.name = "setSequence"
    /\ status = "returned"
    /\ \E p \in 1..(Len(calls) - 1) : IsCmd(calls[p], "LOAD") /\ IsReadback(calls[p + 1])
    /\ \E p \in 1..(Len(calls) - 1) : IsCmd(calls[p], "RUN") /\ IsSleep(calls[p + 1])

SequencingCommands == {"RESET_WRITE", "LOAD", "RESET_READ", "RUN"}

\* the write of the static output register: setResetValue
IsResetValueWrite(e) == e.call = "SetWireInValue" /\ e.what = "setResetValue"

\* the operation has read back IDLE as its last call
ConfirmedIdle ==
    /\ calls # <<>>
    /\ IsReadback(calls[Len(calls)])
    /\ calls[Len(calls)].what = "IDLE"

\* setContinuous writes the static output register first and then halts, and
\* issues none of RESET_WRITE, LOAD, RESET_READ, RUN; when it returns, IDLE has
\* been read back and the decoder is disabled
ContinuousBypassesProgram ==
    /\ calls # <<>> => IsResetValueWrite(calls[1])
    /\ \A p \in 2..Len(calls) : calls[p].meth = "halt"
    /\ \A p \in 1..Len(calls) :
          ~(IsPulse(calls[p]) /\ calls[p].what \in SequencingCommands)
    /\ status = "returned" => (ConfirmedIdle /\ DecoderDisabled)

\* C16: setContinuous, given a mask or channel names, writes the static output
\* register first, with a mask whose set bits all have an index in
\* 0..n_channels-1, and then halts; it issues none of RESET_WRITE, LOAD,
\* RESET_READ, RUN, and when it returns IDLE has been read back with the decoder
\* disabled.  (The integer masks of the model are all within the channels of
\* both cores; a mask beyond them comes from channel names.)
C16_ContinuousWritesChannelMask ==
    op.name = "setContinuous" =>
        /\ ContinuousBypassesProgram
        /\ calls # <<>> => calls[1].n < 2^n_channels(core)

-----------------------------------------------------------------------------
(* The end of a compiled program, checked under SpecCompile.               *)

\* the cursor after the last step: the ticks of the sequence beyond whole blocks
EndCursor == BigModSmall(SumTicks(Len(sequence)), channel_width(core))

\* channel i is active in the last step that is not dropped
LastActive(i) == \E ch \in sequence[LastKept].channels \cap ValidChannels : channel_map[ch] = i

ProgramWord(j) == WordAt(frame.buf, j)

\* the bits of lane i of word j from the cursor upwards are all hi, or all low
LaneFilledFrom(j, i, cursor, hi) ==
    LaneOf(core, ProgramWord(j), i) \div 2^cursor
        = IF hi THEN 2^(channel_width(core) - cursor) - 1 ELSE 0

\* word j has header 2^31 and every lane all high or all low as the last step
IsParkOfLast(j) ==
    /\ HeaderOf(ProgramWord(j)) = REP_MAX
    /\ \A i \in Lanes :
          LaneOf(core, ProgramWord(j), i) = IF LastActive(i) THEN ONES(core) ELSE 0

\* C17: a non-looping program of a sequence with a kept step ends, before the
\* zero padding, with the partial word if the cursor is not 0 (repetition 0, the
\* lanes filled from the cursor upwards with the pattern of the last kept step),
\* and then exactly two identical words with header 2^31 and the pattern of the
\* last kept step in every lane.  A looping program fills the partial word with
\* low from the cursor upwards and has no word with header 2^31.
C17_ProgramEnd ==
    (pos = "returned" /\ AllNonNegative) =>
        LET W == ProgramWords
            P == IF loop THEN W ELSE W - 2
        IN  /\ \A j \in 1..P : BigLt(HeaderOf(ProgramWord(j)), REP_MAX)
            /\ (~loop /\ KeptSteps # {}) =>
                  /\ W >= 2
                  /\ IsParkOfLast(W - 1)
                  /\ IsParkOfLast(W)
                  /\ ProgramWord(W - 1) = ProgramWord(W)
            /\ ((loop \/ KeptSteps # {}) /\ EndCursor # 0) =>
                  /\ P >= 1
                  /\ HeaderOf(ProgramWord(P)) = BigOf(0)
                  /\ \A i \in Lanes :
                        LaneFilledFrom(P, i, EndCursor, ~loop /\ LastActive(i))

\* a non-looping program has ended on a partial word filled with an active
\* channel and the two park words
C17_Witness ==
    /\ pos = "returned"
    /\ AllNonNegative
    /\ ~loop
    /\ EndCursor # 0
    /\ ProgramWords >= 3
    /\ \E i \in Lanes : LastActive(i)
    /\ IsParkOfLast(ProgramWords)

-----------------------------------------------------------------------------
(* The word that pack returns, checked under SpecPack.                     *)

\* byte j (1..16) of the reference serialization: the 32 bit multiplier, most
\* significant byte first, then one byte per channel from the last channel to
\* channel 0; on the 24x4 core one byte per pair of channels, the odd channel in
\* the high nibble
ReferenceByte(c, mult, pattern, j) ==
    IF j <= 4
    THEN BigModSmall(BigDivSmall(mult, 256^(4 - j)), 256)
    ELSE IF c = "24x4"
    THEN pattern[2 * (WORD - j)] + 16 * pattern[2 * (WORD - j) + 1]
    ELSE pattern[WORD - j]

Reference(c, mult, pattern) == [j \in 1..WORD |-> ReferenceByte(c, mult, pattern, j)]

\* C18: on both cores and for every multiplier of 32 bits pack returns 16 bytes:
\* the reference serialization with the two bytes of every pair exchanged.
\* Exchanging the pairs of the result gives the reference serialization, and
\* exchanging them twice gives the result back.
C18_PackIsSwappedReference ==
    packed.done =>
        LET ref == Reference(core, packed.mult, packed.pattern)
        IN  /\ packed.err = "none"
            /\ Len(packed.out) = WORD
            /\ \A q \in 0..(WORD \div 2 - 1) :
                  /\ packed.out[2 * q + 1] = ref[2 * q + 2]
                  /\ packed.out[2 * q + 2] = ref[2 * q + 1]
            /\ \A j \in 1..WORD : packed.out[j] \in 0..255
            /\ SwapPairs(packed.out) = ref
            /\ SwapPairs(SwapPairs(packed.out)) = packed.out

\* pack has returned the word of the multiplier 0xFFFEFDFC with a pattern that
\* differs from channel to channel on the 24x4 core
C18_Witness ==
    /\ packed.done
    /\ core = "24x4"
    /\ packed.mult = [hi |-> 3, lo |-> Base - 66052]
    /\ packed.pattern[0] # packed.pattern[1]
    /\ packed.out[1] = 254
    /\ packed.out[2] = 255
    /\ packed.out[3] = 252
    /\ packed.out[4] = 253

-----------------------------------------------------------------------------
(* The invariant of the for loop, checked under SpecCompile.               *)

\* the first k steps, those the for loop has processed, have no negative time
ProcessedNonNegative == \A i \in 1..k : ~BigIsNeg(sequence[i].time)

\* ticks that the words emitted so far and the cursor stand for
RepresentedTicks ==
    BigAdd(BigMulSmall(SumRepeats(frame.buf, 1, NumWords(frame.buf)), channel_width(core)),
           BigOf(frame.index))

\* C19: after every processed step of a sequence with positive tick counts the
\* cursor is in 0..channel_width-1, every lane of the accumulator has no bit set
\* at or above the cursor (so the accumulator is all 0 when the cursor is 0), and
\* channel_width times the sum of repetition + 1 over the emitted words, plus the
\* cursor, equals the sum of the quantized ticks of the steps processed so far.
C19_LoopInvariant ==
    (pos = "for" /\ ProcessedNonNegative) =>
        /\ frame.index \in 0..(channel_width(core) - 1)
        /\ \A i \in Lanes : frame.pattern[i] \in 0..(2^frame.index - 1)
        /\ Len(frame.buf) = frame.emitted
        /\ RepresentedTicks = SumTicks(k)

\* two steps have been processed, words have been emitted, and the cursor is
\* inside a block with a lane of the accumulator not 0
C19_Witness ==
    /\ pos = "for"
    /\ k = 2
    /\ ProcessedNonNegative
    /\ ~BigIsZero(TicksOf(1))
    /\ ~BigIsZero(TicksOf(2))
    /\ NumWords(frame.buf) >= 1
    /\ frame.index > 0
    /\ \E i \in Lanes : frame.pattern[i] # 0

-----------------------------------------------------------------------------
(* The wrapper, checked under Spec.                                        *)

\* no word of the buffer has a header of 2^31 or more: no park word
NoParkWord(buf) ==
    \A j \in 1..NumWords(buf) : BigLt(HeaderOf(WordAt(buf, j)), REP_MAX)

\* C20: the wrapper's Sequence(sequence, loop) compiles, loads and runs a
\* looping, untriggered program whatever its loop argument is: the program
\* handed to loadPages is the one of convertSequenceToBinary(sequence, loop=True),
\* with no park word, and the trigger gate is written disabled; and an object
\* built by the factory PulseGenerator has the 12x8 core whatever core was asked
\* for.
C20_WrapperLoopsAndBuilds12x8 ==
    /\ op.name = "Sequence" =>
          /\ loop
          /\ ~op.triggered
          /\ pages # <<>> =>
                /\ pages = convertSequenceToBinary(core, sequence, TRUE).buf
                /\ NoParkWord(pages)
          /\ \A p \in 1..Len(calls) : calls[p].what # "enableTrigger"
          /\ status = "returned" =>
                /\ ~TriggerGate
                /\ FollowsOrder(SubSeq(LinkCalls, Len(LinkCalls) - 6, Len(LinkCalls)),
                                RunOrder(FALSE))
    /\ made.by = "PulseGenerator" => core = "12x8"

\* an object built by the factory with the 24x4 core asked for has returned from
\* Sequence(sequence, loop=False) on a sequence whose single-shot program differs
C20_Witness ==
    /\ made = [by |-> "PulseGenerator", core |-> "24x4"]
    /\ op.name = "Sequence"
    /\ op.loopArg = "False"
    /\ status = "returned"
    /\ pages # <<>>
    /\ convertSequenceToBinary(core, sequence, FALSE).buf # pages

====
